---- MODULE Spec2Model ----
(***************************************************************************)
(* The claim arbitration core of the coupon distribution backend:         *)
(* claimCoupon and checkEligibility (controllers/couponController.js),    *)
(* updateTracker, and the replenishment guard (utils/couponGenerator.js), *)
(* run as concurrent request handlers over the Coupon and ClaimTracker    *)
(* collections.  Every `await` of a handler is a point where another      *)
(* request may run, so each storage call is one atomic step.              *)
(*                                                                         *)
(* A coupon document is identified by its sequenceNumber; its random code *)
(* is carried by the same document (schema: code unique) and is not       *)
(* modelled apart from it.  Times are milliseconds.                       *)
(***************************************************************************)
EXTENDS Integers, Sequences, FiniteSets, TLC

\* ---------------------------------------------------------------- constants
CLAIM_COOLDOWN == 30000
COOKIE_MAX_AGE == 30000
MINIMUM_COUPONS == 20
REPLENISH_COUNT == 50

\* ------------------------------------------------------------------- bounds
NSlots == 2
MaxConcurrentRequests == 2
MaxSerialRequests == 2
MaxTicks == 2
MaxFaults == 1

Slots == 1..NSlots
Addresses == {"a", "b"}
\* Clock advances between arrivals: one millisecond short of the cooldown, or
\* the cooldown exactly (an arrival may also follow at once, see Elapsed).
TickSteps == {CLAIM_COOLDOWN - 1, CLAIM_COOLDOWN}

None == <<>>
Some(x) == <<x>>
Null == "null"

VARIABLES
  now,       \* the server clock at its latest reading
  ticks,     \* number of clock advances so far
  coupons,   \* the Coupon collection, in insertion order
  trackers,  \* the ClaimTracker collection, in insertion order
  issued,    \* session tokens set as cookies so far
  req,       \* per slot: the request being handled and the handler's locals
  started,   \* number of requests started so far
  claimLog,  \* success responses of claimCoupon, in completion order
  wrote,     \* per slot: the collections the current request has changed
  serial,    \* TRUE: requests are handled one at a time
  faults,    \* number of storage failures that have ended in a 500 so far
  schema,    \* the ClaimTracker schema the server runs with
  sample     \* the latest application of a helper function to a sampled input

vars == <<now, ticks, coupons, trackers, issued, req, started, claimLog, wrote, serial, faults,
          schema, sample>>

\* ---------------------------------------------------------- Coupon collection
IsActive(c) == c.isActive

\* countDocuments({ isActive: true })
CountActive(cs) == Cardinality({i \in DOMAIN cs : IsActive(cs[i])})

\* the filter of findOneAndUpdate: { isActive: true, claimedBy: null }
ReserveFilterAny(c) == TRUE
ReserveFilter(c) == c.isActive /\ c.claimedBy = Null

\* sort: { sequenceNumber: 1 }
PrecedesDescending(a, b) == a.sequenceNumber > b.sequenceNumber
Precedes(a, b) == a.sequenceNumber < b.sequenceNumber

\* index of the document findOneAndUpdate selects, 0 when none matches
NextCouponIndex(cs) ==
  LET m == {i \in DOMAIN cs : ReserveFilter(cs[i])}
  IN IF m = {} THEN 0
     ELSE CHOOSE i \in m : \A j \in m :
            \/ i = j
            \/ Precedes(cs[i], cs[j])
            \/ (~Precedes(cs[j], cs[i]) /\ i < j)

\* the update of findOneAndUpdate: claimedBy, claimedAt, isActive: false
ReservedStillOpen(c, ipAddress, currentTime) ==
  [c EXCEPT !.claimedAt = Some(currentTime)]

\* the update document of findOneAndUpdate: claimedBy, claimedAt, isActive (the
\* sessionId path of the coupon schema is not in it and keeps its default)
Reserved(c, ipAddress, currentTime) ==
  [c EXCEPT !.claimedBy = ipAddress, !.claimedAt = Some(currentTime), !.isActive = FALSE]

\* getNextSequenceNumber: one more than the largest sequenceNumber, 1 when empty
RECURSIVE MaxSeq(_, _)
MaxSeq(cs, i) ==
  IF i = 0 THEN 0
  ELSE LET rest == MaxSeq(cs, i - 1)
       IN IF cs[i].sequenceNumber > rest THEN cs[i].sequenceNumber ELSE rest

getNextSequenceNumber(cs) ==
  IF cs = <<>> THEN 1 ELSE MaxSeq(cs, Len(cs)) + 1

\* generateCoupons numbering from nextSeq + 1
NewCouponsOneBased(nextSeq, count) ==
  [index \in 1..count |->
     [sequenceNumber |-> nextSeq + index, isActive |-> TRUE,
      claimedBy |-> Null, sessionId |-> None,
      claimedAt |-> None]]

\* the documents generateCoupons builds
NewCoupons(nextSeq, count) ==
  [index \in 1..count |->
     [sequenceNumber |-> nextSeq + (index - 1), isActive |-> TRUE,
      claimedBy |-> Null, sessionId |-> None,
      claimedAt |-> None]]

\* Coupon.insertMany on a collection without the unique index
insertManyNoIndex(cs, docs) == cs \o docs

\* Coupon.insertMany (ordered) under the schema's unique index on
\* sequenceNumber: documents are inserted in order up to the first duplicate.
insertMany(cs, docs) ==
  LET stored == {cs[i].sequenceNumber : i \in DOMAIN cs}
      duplicate == {k \in DOMAIN docs :
                      \/ docs[k].sequenceNumber \in stored
                      \/ \E j \in 1..(k - 1) : docs[j].sequenceNumber = docs[k].sequenceNumber}
      inserted == IF duplicate = {} THEN Len(docs)
                  ELSE (CHOOSE k \in duplicate : \A j \in duplicate : k <= j) - 1
  IN cs \o SubSeq(docs, 1, inserted)

\* ---------------------------------------------------- ClaimTracker collection
\* nextClaimTime: { $gt: currentTime }
InCooldownInclusive(t, currentTime) == t.nextClaimTime >= currentTime
InCooldown(t, currentTime) == t.nextClaimTime > currentTime

FirstOf(trs, m) == IF m = {} THEN None ELSE Some(trs[CHOOSE i \in m : \A j \in m : i <= j])

\* ClaimTracker.findOne({ identifier, type, nextClaimTime: { $gt: currentTime } })
FindActiveTracker(trs, identifier, type, currentTime) ==
  FirstOf(trs, {i \in DOMAIN trs :
                  /\ trs[i].type = type
                  /\ trs[i].identifier = identifier
                  /\ InCooldown(trs[i], currentTime)})

\* ClaimTracker.findOne({ identifier, type })
FindTracker(trs, identifier, type) ==
  FirstOf(trs, {i \in DOMAIN trs : trs[i].type = type /\ trs[i].identifier = identifier})

NextClaimTimeNoCooldown(currentTime) == currentTime
NextClaimTimeOf(currentTime) == currentTime + CLAIM_COOLDOWN

\* ClaimTracker.updateOne({ identifier, type }, { lastClaimAt, nextClaimTime, $inc })
updateOne(trs, identifier, type, currentTime) ==
  LET m == {i \in DOMAIN trs : trs[i].type = type /\ trs[i].identifier = identifier}
  IN IF m = {} THEN trs
     ELSE LET k == CHOOSE i \in m : \A j \in m : i <= j
          IN [trs EXCEPT ![k] = [@ EXCEPT !.lastClaimAt = currentTime,
                                          !.nextClaimTime = NextClaimTimeOf(currentTime),
                                          !.claimCount = @ + 1]]

\* The paths of the ClaimTracker schema.  models/ClaimTracker.js declares
\* ipAddress, sessionId, lastClaimAt and claimCount ("legacy"); updateTracker
\* and both handlers read and write identifier, type and nextClaimTime, the
\* tagged shape of the data model ("tagged").  A server runs with one of them.
LegacyPaths == {"ipAddress", "sessionId", "lastClaimAt", "claimCount"}
TaggedPaths == {"identifier", "type", "lastClaimAt", "nextClaimTime", "claimCount"}
Schemas == {"legacy", "tagged"}
Paths(sch) == IF sch = "legacy" THEN LegacyPaths ELSE TaggedPaths

\* strict mode: a new document keeps only the paths its schema declares
Cast(sch, doc) ==
  IF DOMAIN doc \subseteq Paths(sch) THEN doc
  ELSE [f \in DOMAIN doc \cap Paths(sch) |-> doc[f]]

\* pre('save'): either ipAddress or sessionId must be provided
PreSave(doc) == "ipAddress" \in DOMAIN doc \/ "sessionId" \in DOMAIN doc

\* a model without write-time validation
ValidatesAnything(sch, doc) == TRUE

\* write-time validation of a new document
Validates(sch, doc) ==
  IF sch = "legacy" THEN PreSave(doc) ELSE "identifier" \in DOMAIN doc

\* the document updateTracker creates
NewTracker(identifier, type, currentTime) ==
  [identifier |-> identifier, type |-> type, lastClaimAt |-> currentTime,
   nextClaimTime |-> NextClaimTimeOf(currentTime), claimCount |-> 1]

\* ClaimTracker.create({ identifier, type, lastClaimAt, nextClaimTime, claimCount: 1 })
create(trs, sch, doc) == Append(trs, Cast(sch, doc))

\* number of tracker writes so far ($inc and create each add one)
RECURSIVE TrackerVersion(_)
TrackerVersion(trs) ==
  IF trs = <<>> THEN 0 ELSE Head(trs).claimCount + TrackerVersion(Tail(trs))

\* ------------------------------------------------------------------ requests
IdleReq ==
  [pc |-> "idle", kind |-> "none", ip |-> Null, sessionId |-> None, currentTime |-> 0,
   ipTracker |-> None, sessionTracker |-> None, minted |-> None,
   nextSeq |-> 0, guardRet |-> "none", guardCalls |-> 0,
   coupon |-> None, ipUp |-> "none", sessionUp |-> "none", availableCoupons |-> 0,
   status |-> 0, resp |-> None, overlapped |-> {}, ver |-> 0,
   poolSize |-> 0, guard |-> None]

InFlight(r) == req[r].pc \notin {"idle", "done"}

\* the number of requests a run may start
MaxRequests == IF serial THEN MaxSerialRequests ELSE MaxConcurrentRequests

\* the cookies a client can present: none, or a token the server has issued
Presentable == {None} \cup {Some(t) : t \in issued}

\* The state left by earlier traffic.  Visitors at addresses other than the
\* modelled ones ("earlier") claimed all but the last coupon of one batch; the
\* last of them claimed without a cookie at EarlierVisit, which set the cookie
\* EarlierVisit, and again, presenting it, one cooldown later, at time 0.
EarlierVisit == 0 - CLAIM_COOLDOWN

DrainedPool ==
  [i \in 1..REPLENISH_COUNT |->
     IF i < REPLENISH_COUNT
     THEN [sequenceNumber |-> i, isActive |-> FALSE, claimedBy |-> "earlier", sessionId |-> None,
           claimedAt |-> Some(IF i < REPLENISH_COUNT - 1 THEN EarlierVisit ELSE 0)]
     ELSE [sequenceNumber |-> i, isActive |-> TRUE, claimedBy |-> Null, sessionId |-> None,
      claimedAt |-> None]]

EarlierTrackers ==
  <<[identifier |-> "earlier", type |-> "ip", lastClaimAt |-> 0,
     nextClaimTime |-> CLAIM_COOLDOWN, claimCount |-> 2],
    [identifier |-> Some(EarlierVisit), type |-> "session", lastClaimAt |-> 0,
     nextClaimTime |-> CLAIM_COOLDOWN, claimCount |-> 1]>>

\* no helper function has been applied yet
NoSample == [fn |-> "none", arg |-> None, out |-> None]

\* a fresh database, or the state left by earlier traffic (which leaves no
\* tracker behind when the schema rejects the documents updateTracker creates)
InitCommon ==
  /\ now = 0
  /\ ticks = 0
  /\ schema \in Schemas
  /\ \/ coupons = <<>> /\ trackers = <<>> /\ issued = {}
     \/ /\ coupons = DrainedPool
        /\ trackers = IF schema = "tagged" THEN EarlierTrackers ELSE <<>>
        /\ issued = {EarlierVisit}
  /\ req = [r \in Slots |-> IdleReq]
  /\ started = 0
  /\ claimLog = <<>>
  /\ wrote = [r \in Slots |-> {}]
  /\ faults = 0
  /\ sample = NoSample

Init == InitCommon /\ serial = FALSE
InitSerial == InitCommon /\ serial = TRUE

\* The same earlier traffic with two more claims in it: one millisecond before
\* the last earlier claim, each modelled address claimed once without a cookie
\* (and was sent the cookie of that instant).  A caller at such an address who
\* presents the cookie EarlierVisit has two trackers in cooldown, the
\* session's ending one millisecond after the address's.
LateVisit == 0 - 1

DualPool ==
  [i \in 1..REPLENISH_COUNT |->
     IF i = REPLENISH_COUNT - 3
     THEN [sequenceNumber |-> i, isActive |-> FALSE, claimedBy |-> "a", sessionId |-> None,
           claimedAt |-> Some(LateVisit)]
     ELSE IF i = REPLENISH_COUNT - 2
     THEN [sequenceNumber |-> i, isActive |-> FALSE, claimedBy |-> "b", sessionId |-> None,
           claimedAt |-> Some(LateVisit)]
     ELSE DrainedPool[i]]

DualTrackers ==
  <<[identifier |-> "earlier", type |-> "ip", lastClaimAt |-> 0,
     nextClaimTime |-> CLAIM_COOLDOWN, claimCount |-> 2],
    [identifier |-> "a", type |-> "ip", lastClaimAt |-> LateVisit,
     nextClaimTime |-> NextClaimTimeOf(LateVisit), claimCount |-> 1],
    [identifier |-> "b", type |-> "ip", lastClaimAt |-> LateVisit,
     nextClaimTime |-> NextClaimTimeOf(LateVisit), claimCount |-> 1],
    [identifier |-> Some(EarlierVisit), type |-> "session", lastClaimAt |-> 0,
     nextClaimTime |-> CLAIM_COOLDOWN, claimCount |-> 1]>>

InitDual ==
  \/ InitSerial
  \/ /\ now = 0 /\ ticks = 0 /\ schema = "tagged" /\ serial = TRUE
     /\ coupons = DualPool /\ trackers = DualTrackers
     /\ issued = {EarlierVisit, LateVisit}
     /\ req = [r \in Slots |-> IdleReq]
     /\ started = 0 /\ claimLog = <<>> /\ wrote = [r \in Slots |-> {}] /\ faults = 0
     /\ sample = NoSample

\* The clock is read when a request enters a handler (new Date()) and when a
\* session cookie is minted (Date.now()).  It advances, by d, when a request
\* arrives: a cookie minted after a later arrival is later than the request's
\* own currentTime.
Elapsed == IF ticks < MaxTicks THEN {0} \cup TickSteps ELSE {0}

Advance(d) ==
  /\ now' = now + d
  /\ ticks' = IF d = 0 THEN ticks ELSE ticks + 1

\* what the step of slot r changed, accumulated over the request
Track(r) ==
  wrote' = [wrote EXCEPT ![r] =
    IF req'[r].pc = "idle" \/ req[r].pc = "idle" THEN {}
    ELSE @ \cup (IF coupons' # coupons THEN {"coupons"} ELSE {})
           \cup (IF trackers' # trackers THEN {"trackers"} ELSE {})
           \cup (IF issued' # issued THEN {"issued"} ELSE {})]

\* a request enters a handler: req.ip, new Date(), req.cookies[COOKIE_NAME]
Start(r, kind, ip, sessionId, d) ==
  /\ req[r].pc = "idle"
  /\ \A q \in Slots : q < r => req[q].pc # "idle"
  /\ started < MaxRequests
  /\ serial => \A q \in Slots : ~InFlight(q)
  /\ Advance(d)
  /\ req' = [req EXCEPT ![r] =
       [IdleReq EXCEPT !.pc = IF kind = "claim" THEN "ipLookup" ELSE "checkLookup",
                       !.kind = kind, !.ip = ip, !.sessionId = sessionId,
                       !.currentTime = now',
                       !.ipUp = IF kind = "check" THEN "find" ELSE "none",
                       !.sessionUp = IF kind = "check"
                                     THEN (IF sessionId # None THEN "find" ELSE "skip")
                                     ELSE "none",
                       !.overlapped = {q \in Slots : InFlight(q)},
                       !.ver = TrackerVersion(trackers)]]
  /\ started' = started + 1
  /\ UNCHANGED <<coupons, trackers, issued, claimLog, serial, faults, schema, sample>>
  /\ Track(r)

\* the addresses are interchangeable: the first request comes from "a"
Callers == IF started = 0 THEN {"a"} ELSE Addresses

ClaimStart(r) ==
  \E ip \in Callers, sessionId \in Presentable, d \in Elapsed :
     Start(r, "claim", ip, sessionId, d)

CheckStart(r) ==
  \E ip \in Callers, sessionId \in Presentable, d \in Elapsed :
     Start(r, "check", ip, sessionId, d)

\* ------------------------------------------------------------- claimCoupon
\* the 429 body: nextClaimTime, remainingTime.total, trackerType
Rejection(t, currentTime, trackerType) ==
  [nextClaimTime |-> t.nextClaimTime,
   remainingTime |-> t.nextClaimTime - currentTime,
   trackerType |-> trackerType]

\* the address is in cooldown: 429, 'IP Address'
RejectByIpRecording(r) ==
  LET q == req[r]
      t == FindActiveTracker(trackers, q.ip, "ip", q.currentTime)
  IN /\ q.pc = "ipLookup"
     /\ t # None
     /\ req' = [req EXCEPT ![r] = [q EXCEPT !.pc = "done", !.ipTracker = t, !.status = 429,
                  !.resp = Some(Rejection(t[1], q.currentTime, "IP Address"))]]
     /\ trackers' = updateOne(trackers, q.ip, "ip", q.currentTime)
     /\ UNCHANGED <<now, ticks, coupons, issued, started, claimLog, serial, faults, schema, sample>>
     /\ Track(r)

RejectByIp(r) ==
  LET q == req[r]
      t == FindActiveTracker(trackers, q.ip, "ip", q.currentTime)
  IN /\ q.pc = "ipLookup"
     /\ t # None
     /\ req' = [req EXCEPT ![r] = [q EXCEPT !.pc = "done", !.ipTracker = t, !.status = 429,
                  !.resp = Some(Rejection(t[1], q.currentTime, "IP Address"))]]
     /\ UNCHANGED <<now, ticks, coupons, trackers, issued, started, claimLog, serial, faults,
                    schema, sample>>
     /\ Track(r)

\* the address is free and a cookie was presented: look the session up next
IpFreeSkipSession(r) ==
  LET q == req[r]
  IN /\ q.pc = "ipLookup"
     /\ FindActiveTracker(trackers, q.ip, "ip", q.currentTime) = None
     /\ q.sessionId # None
     /\ req' = [req EXCEPT ![r] = [q EXCEPT !.pc = "count"]]
     /\ UNCHANGED <<now, ticks, coupons, trackers, issued, started, claimLog, serial, faults,
                    schema, sample>>
     /\ Track(r)

IpFreeWithSession(r) ==
  LET q == req[r]
  IN /\ q.pc = "ipLookup"
     /\ FindActiveTracker(trackers, q.ip, "ip", q.currentTime) = None
     /\ q.sessionId # None
     /\ req' = [req EXCEPT ![r] = [q EXCEPT !.pc = "sessionLookup"]]
     /\ UNCHANGED <<now, ticks, coupons, trackers, issued, started, claimLog, serial, faults,
                    schema, sample>>
     /\ Track(r)

\* the address is free and no cookie was presented: set a new session cookie,
\* Date.now().toString(), and go on to count the coupons
IpFreeNoSession(r) ==
  LET q == req[r]
  IN /\ q.pc = "ipLookup"
     /\ FindActiveTracker(trackers, q.ip, "ip", q.currentTime) = None
     /\ q.sessionId = None
     /\ issued' = issued \cup {now}
     /\ req' = [req EXCEPT ![r] = [q EXCEPT !.pc = "count", !.minted = Some(now)]]
     /\ UNCHANGED <<now, ticks, coupons, trackers, started, claimLog, serial, faults,
                    schema, sample>>
     /\ Track(r)

\* the session is in cooldown: 429, 'Browser Session'
RejectBySession(r) ==
  LET q == req[r]
      t == FindActiveTracker(trackers, q.sessionId, "session", q.currentTime)
  IN /\ q.pc = "sessionLookup"
     /\ t # None
     /\ req' = [req EXCEPT ![r] = [q EXCEPT !.pc = "done", !.sessionTracker = t, !.status = 429,
                  !.resp = Some(Rejection(t[1], q.currentTime, "Browser Session"))]]
     /\ UNCHANGED <<now, ticks, coupons, trackers, issued, started, claimLog, serial, faults,
                    schema, sample>>
     /\ Track(r)

SessionFree(r) ==
  LET q == req[r]
  IN /\ q.pc = "sessionLookup"
     /\ FindActiveTracker(trackers, q.sessionId, "session", q.currentTime) = None
     /\ req' = [req EXCEPT ![r] = [q EXCEPT !.pc = "count"]]
     /\ UNCHANGED <<now, ticks, coupons, trackers, issued, started, claimLog, serial, faults,
                    schema, sample>>
     /\ Track(r)

\* availableCoupons = countDocuments({ isActive: true }); replenish when 0
CountCoupons(r) ==
  LET q == req[r]
      n == CountActive(coupons)
  IN /\ q.pc = "count"
     /\ req' = [req EXCEPT ![r] =
          IF n = 0
          THEN [q EXCEPT !.pc = "guardCount", !.guardRet = "reserve", !.guardCalls = @ + 1,
                         !.availableCoupons = n, !.poolSize = Len(coupons)]
          ELSE [q EXCEPT !.pc = "reserve", !.availableCoupons = n]]
     /\ UNCHANGED <<now, ticks, coupons, trackers, issued, started, claimLog, serial, faults,
                    schema, sample>>
     /\ Track(r)

\* what a call of checkAndReplenishCoupons did: whether the count it took was
\* below the floor, the number of coupons it inserted, the value it returned,
\* and whether a storage call of it threw.  claimCoupon discards the value: it
\* is held in req.guard until the handler's next step.
GuardResult(below, inserted, ret, threw) ==
  Some([below |-> below, inserted |-> inserted, ret |-> ret, threw |-> threw])

\* checkAndReplenishCoupons: count, and generate when below the floor
GuardCount(r) ==
  LET q == req[r]
  IN /\ q.pc = "guardCount"
     /\ req' = [req EXCEPT ![r] =
          IF CountActive(coupons) < MINIMUM_COUPONS
          THEN [q EXCEPT !.pc = "guardMax", !.guard = None]
          ELSE [q EXCEPT !.pc = q.guardRet,
                         !.guard = GuardResult(FALSE, 0, FALSE, FALSE)]]
     /\ UNCHANGED <<now, ticks, coupons, trackers, issued, started, claimLog, serial, faults,
                    schema, sample>>
     /\ Track(r)

\* generateCoupons: nextSeq = await getNextSequenceNumber()
GuardMax(r) ==
  LET q == req[r]
  IN /\ q.pc = "guardMax"
     /\ req' = [req EXCEPT ![r] = [q EXCEPT !.pc = "guardInsert",
                                            !.nextSeq = getNextSequenceNumber(coupons)]]
     /\ UNCHANGED <<now, ticks, coupons, trackers, issued, started, claimLog, serial, faults,
                    schema, sample>>
     /\ Track(r)

\* generateCoupons: await Coupon.insertMany(coupons); a duplicate-key error is
\* caught and the guard returns to its caller all the same
GuardInsert(r) ==
  LET q == req[r]
  IN /\ q.pc = "guardInsert"
     /\ coupons' = insertMany(coupons, NewCoupons(q.nextSeq, REPLENISH_COUNT))
     /\ req' = [req EXCEPT ![r] =
          [q EXCEPT !.pc = q.guardRet, !.nextSeq = 0,
                    !.guard = GuardResult(TRUE, Len(coupons') - Len(coupons), TRUE, FALSE)]]
     /\ UNCHANGED <<now, ticks, trackers, issued, started, claimLog, serial, faults,
                    schema, sample>>
     /\ Track(r)

\* Coupon.findOneAndUpdate: reserve the next coupon in one atomic operation
ReserveHit(r) ==
  LET q == req[r]
      k == NextCouponIndex(coupons)
  IN /\ q.pc \in {"reserve", "retry"}
     /\ k # 0
     /\ coupons' = [coupons EXCEPT ![k] = Reserved(@, q.ip, q.currentTime)]
     /\ req' = [req EXCEPT ![r] =
          [q EXCEPT !.pc = "trackers", !.coupon = Some(coupons'[k]), !.ipUp = "find",
                    !.guard = None,
                    !.sessionUp = IF q.sessionId # None THEN "find" ELSE "skip"]]
     /\ UNCHANGED <<now, ticks, trackers, issued, started, claimLog, serial, faults,
                    schema, sample>>
     /\ Track(r)

\* no coupon matched: replenish and retry once
ReserveMiss(r) ==
  LET q == req[r]
  IN /\ q.pc = "reserve"
     /\ NextCouponIndex(coupons) = 0
     /\ req' = [req EXCEPT ![r] = [q EXCEPT !.pc = "guardCount", !.guardRet = "retry",
                                            !.guardCalls = @ + 1, !.guard = None]]
     /\ UNCHANGED <<now, ticks, coupons, trackers, issued, started, claimLog, serial, faults,
                    schema, sample>>
     /\ Track(r)

\* the retry matched nothing: 404, after recording the attempt as a claim
ExhaustedRecording(r) ==
  LET q == req[r]
  IN /\ q.pc = "retry"
     /\ NextCouponIndex(coupons) = 0
     /\ req' = [req EXCEPT ![r] = [q EXCEPT !.pc = "done", !.status = 404, !.guard = None,
                                            !.resp = Some([shouldRetry |-> FALSE])]]
     /\ trackers' = IF schema = "tagged"
                    THEN create(trackers, schema, NewTracker(q.ip, "ip", q.currentTime))
                    ELSE trackers
     /\ UNCHANGED <<now, ticks, coupons, issued, started, claimLog, serial, faults,
                    schema, sample>>
     /\ Track(r)

\* the retry matched nothing and the handler returns without a response
ExhaustedSilent(r) ==
  LET q == req[r]
  IN /\ q.pc = "retry"
     /\ NextCouponIndex(coupons) = 0
     /\ req' = [req EXCEPT ![r] = [q EXCEPT !.pc = "done", !.guard = None]]
     /\ UNCHANGED <<now, ticks, coupons, trackers, issued, started, claimLog, serial, faults,
                    schema, sample>>
     /\ Track(r)

\* the retry matched nothing either: 404, shouldRetry: false
Exhausted(r) ==
  LET q == req[r]
  IN /\ q.pc = "retry"
     /\ NextCouponIndex(coupons) = 0
     /\ req' = [req EXCEPT ![r] = [q EXCEPT !.pc = "done", !.status = 404, !.guard = None,
                                            !.resp = Some([shouldRetry |-> FALSE])]]
     /\ UNCHANGED <<now, ticks, coupons, trackers, issued, started, claimLog, serial, faults,
                    schema, sample>>
     /\ Track(r)

\* ----------------------------------------------------------- updateTracker
\* The two updateTracker calls of Promise.all run interleaved; kind is "ip"
\* or "session", and the call's position is req.ipUp / req.sessionUp.
UpPos(q, kind) == IF kind = "ip" THEN q.ipUp ELSE q.sessionUp
UpIdentifier(q, kind) == IF kind = "ip" THEN q.ip ELSE q.sessionId
SetUp(q, kind, pos) ==
  IF kind = "ip" THEN [q EXCEPT !.ipUp = pos] ELSE [q EXCEPT !.sessionUp = pos]

\* tracker = await ClaimTracker.findOne({ identifier, type })
TrackerFind(r, kind) ==
  LET q == req[r]
  IN /\ q.pc = "trackers"
     /\ UpPos(q, kind) = "find"
     /\ req' = [req EXCEPT ![r] =
          SetUp(q, kind, IF FindTracker(trackers, UpIdentifier(q, kind), kind) # None
                         THEN "update" ELSE "create")]
     /\ UNCHANGED <<now, ticks, coupons, trackers, issued, started, claimLog, serial, faults,
                    schema, sample>>
     /\ Track(r)

\* the success body: coupon, sequenceNumber, claimTime, nextClaimTime
Success(q) ==
  [sequenceNumber |-> q.coupon[1].sequenceNumber,
   claimTime |-> q.currentTime,
   nextClaimTime |-> q.currentTime + CLAIM_COOLDOWN]

LogEntry(q) ==
  [ip |-> q.ip, sessionId |-> q.sessionId, minted |-> q.minted,
   claimTime |-> q.currentTime, sequenceNumber |-> q.coupon[1].sequenceNumber]

TrackerDoc(q, kind) == NewTracker(UpIdentifier(q, kind), kind, q.currentTime)

\* both calls of Promise.all have ended
Settled(q) == q.ipUp \in {"done", "failed"} /\ q.sessionUp \in {"done", "skip", "failed"}

\* updateOne or create; when both calls of Promise.all are through, res.json
\* (unless a failed call has already sent the 500)
TrackerWrite(r, kind) ==
  LET q == req[r]
      w == SetUp(q, kind, "done")
      ok == Settled(w) /\ q.status = 0
  IN /\ q.pc = "trackers"
     /\ UpPos(q, kind) \in {"update", "create"}
     /\ UpPos(q, kind) = "create" => Validates(schema, Cast(schema, TrackerDoc(q, kind)))
     /\ req' = [req EXCEPT ![r] =
          IF ok THEN [w EXCEPT !.pc = "done", !.status = 200, !.resp = Some(Success(q))]
          ELSE IF Settled(w) THEN [w EXCEPT !.pc = "done"]
          ELSE w]
     /\ trackers' = IF UpPos(q, kind) = "update"
                    THEN updateOne(trackers, UpIdentifier(q, kind), kind, q.currentTime)
                    ELSE create(trackers, schema, TrackerDoc(q, kind))
     /\ claimLog' = IF ok THEN Append(claimLog, LogEntry(q)) ELSE claimLog
     /\ UNCHANGED <<now, ticks, coupons, issued, started, serial, faults, schema, sample>>
     /\ Track(r)

\* ------------------------------------------------------- storage failures
\* the body of the 500 response
ServerError == [message |-> "Error claiming coupon"]

\* a storage call of claimCoupon itself throws: the catch block answers 500
ClaimFail(r) ==
  LET q == req[r]
  IN /\ q.pc \in {"ipLookup", "sessionLookup", "count", "reserve", "retry"}
     /\ faults < MaxFaults
     /\ faults' = faults + 1
     /\ req' = [req EXCEPT ![r] = [q EXCEPT !.pc = "done", !.status = 500, !.guard = None,
                                            !.resp = Some(ServerError)]]
     /\ UNCHANGED <<now, ticks, coupons, trackers, issued, started, claimLog, serial, schema, sample>>
     /\ Track(r)

\* a storage call inside checkAndReplenishCoupons or generateCoupons throws:
\* it is caught there, nothing is inserted, and the guard returns to its caller
GuardFailThrows(r) ==
  LET q == req[r]
  IN /\ q.pc \in {"guardCount", "guardMax", "guardInsert"}
     /\ req' = [req EXCEPT ![r] = [q EXCEPT !.pc = "done", !.status = 500, !.nextSeq = 0,
                                            !.resp = Some(ServerError)]]
     /\ UNCHANGED <<now, ticks, coupons, trackers, issued, started, claimLog, serial, faults,
                    schema, sample>>
     /\ Track(r)

GuardFail(r) ==
  LET q == req[r]
  IN /\ q.pc \in {"guardCount", "guardMax", "guardInsert"}
     /\ req' = [req EXCEPT ![r] =
          [q EXCEPT !.pc = q.guardRet, !.nextSeq = 0,
                    !.guard = GuardResult(CountActive(coupons) < MINIMUM_COUPONS, 0,
                                          q.pc # "guardCount", TRUE)]]
     /\ UNCHANGED <<now, ticks, coupons, trackers, issued, started, claimLog, serial, faults,
                    schema, sample>>
     /\ Track(r)

\* a storage call of updateTracker throws: it rethrows, Promise.all rejects and
\* the catch block answers 500, while the other updateTracker call runs on
TrackerFail(r, kind) ==
  LET q == req[r]
      w == SetUp(q, kind, "failed")
      x == IF q.status = 0 THEN [w EXCEPT !.status = 500, !.resp = Some(ServerError)] ELSE w
  IN /\ q.pc = "trackers"
     /\ UpPos(q, kind) \in {"find", "update", "create"}
     /\ faults < MaxFaults
     /\ faults' = faults + 1
     /\ req' = [req EXCEPT ![r] = IF Settled(x) THEN [x EXCEPT !.pc = "done"] ELSE x]
     /\ UNCHANGED <<now, ticks, coupons, trackers, issued, started, claimLog, serial, schema, sample>>
     /\ Track(r)

\* ClaimTracker.create rejects the document at validation: nothing is stored,
\* updateTracker rethrows and the catch block answers 500
TrackerInvalid(r, kind) ==
  LET q == req[r]
      w == SetUp(q, kind, "failed")
      x == IF q.status = 0 THEN [w EXCEPT !.status = 500, !.resp = Some(ServerError)] ELSE w
  IN /\ q.pc = "trackers"
     /\ UpPos(q, kind) = "create"
     /\ ~Validates(schema, Cast(schema, TrackerDoc(q, kind)))
     /\ req' = [req EXCEPT ![r] = IF Settled(x) THEN [x EXCEPT !.pc = "done"] ELSE x]
     /\ UNCHANGED <<now, ticks, coupons, trackers, issued, started, claimLog, serial, faults,
                    schema, sample>>
     /\ Track(r)

\* a storage call of checkEligibility throws: the catch block answers 500
CheckFail(r) ==
  LET q == req[r]
  IN /\ q.pc \in {"checkLookup", "checkCount", "checkNext"}
     /\ faults < MaxFaults
     /\ faults' = faults + 1
     /\ req' = [req EXCEPT ![r] = [q EXCEPT !.pc = "done", !.status = 500,
                    !.resp = Some([message |-> "Error checking eligibility"])]]
     /\ UNCHANGED <<now, ticks, coupons, trackers, issued, started, claimLog, serial, schema, sample>>
     /\ Track(r)

\* --------------------------------------------------------- checkEligibility
\* Promise.all of the two findOne calls: ipUp / sessionUp hold their positions
CheckIpLookup(r) ==
  LET q == req[r]
  IN /\ q.pc = "checkLookup"
     /\ q.ipUp = "find"
     /\ req' = [req EXCEPT ![r] =
          [q EXCEPT !.ipUp = "done",
                    !.ipTracker = FindActiveTracker(trackers, q.ip, "ip", q.currentTime),
                    !.pc = IF q.sessionUp \in {"done", "skip"} THEN "checkCount" ELSE @]]
     /\ UNCHANGED <<now, ticks, coupons, trackers, issued, started, claimLog, serial, faults,
                    schema, sample>>
     /\ Track(r)

CheckSessionLookup(r) ==
  LET q == req[r]
  IN /\ q.pc = "checkLookup"
     /\ q.sessionUp = "find"
     /\ req' = [req EXCEPT ![r] =
          [q EXCEPT !.sessionUp = "done",
                    !.sessionTracker =
                       FindActiveTracker(trackers, q.sessionId, "session", q.currentTime),
                    !.pc = IF q.ipUp = "done" THEN "checkCount" ELSE @]]
     /\ UNCHANGED <<now, ticks, coupons, trackers, issued, started, claimLog, serial, faults,
                    schema, sample>>
     /\ Track(r)

\* availableCoupons = await Coupon.countDocuments({ isActive: true })
CheckCount(r) ==
  LET q == req[r]
  IN /\ q.pc = "checkCount"
     /\ req' = [req EXCEPT ![r] = [q EXCEPT !.pc = "checkNext",
                                            !.availableCoupons = CountActive(coupons)]]
     /\ UNCHANGED <<now, ticks, coupons, trackers, issued, started, claimLog, serial, faults,
                    schema, sample>>
     /\ Track(r)

\* if (!ipTracker && !sessionTracker): no active cooldown
NoCooldownEither(ipTracker, sessionTracker) == ipTracker = None \/ sessionTracker = None
NoCooldown(ipTracker, sessionTracker) == ipTracker = None /\ sessionTracker = None

\* the body of the eligibility response
EligibilityByAddressOnly(q, nextSequenceNumber) ==
  IF q.ipTracker = None
  THEN [canClaim |-> TRUE, remainingTime |-> 0, totalClaims |-> 0, trackerType |-> "none",
        nextClaimTime |-> None,
        availableCoupons |-> q.availableCoupons, nextSequenceNumber |-> nextSequenceNumber]
  ELSE [canClaim |-> FALSE,
        remainingTime |-> q.ipTracker[1].nextClaimTime - q.currentTime,
        totalClaims |-> q.ipTracker[1].claimCount, trackerType |-> "IP Address",
        nextClaimTime |-> Some(q.ipTracker[1].nextClaimTime),
        availableCoupons |-> q.availableCoupons, nextSequenceNumber |-> nextSequenceNumber]

Eligibility(q, nextSequenceNumber) ==
  IF NoCooldown(q.ipTracker, q.sessionTracker)
  THEN [canClaim |-> TRUE, remainingTime |-> 0, totalClaims |-> 0, trackerType |-> "none",
        nextClaimTime |-> None,
        availableCoupons |-> q.availableCoupons, nextSequenceNumber |-> nextSequenceNumber]
  ELSE IF q.ipTracker # None
  THEN [canClaim |-> FALSE,
        remainingTime |-> q.ipTracker[1].nextClaimTime - q.currentTime,
        totalClaims |-> q.ipTracker[1].claimCount, trackerType |-> "IP Address",
        nextClaimTime |-> Some(q.ipTracker[1].nextClaimTime),
        availableCoupons |-> q.availableCoupons, nextSequenceNumber |-> nextSequenceNumber]
  ELSE IF q.sessionTracker # None
  THEN [canClaim |-> FALSE,
        remainingTime |-> q.sessionTracker[1].nextClaimTime - q.currentTime,
        totalClaims |-> q.sessionTracker[1].claimCount, trackerType |-> "Browser Session",
        nextClaimTime |-> Some(q.sessionTracker[1].nextClaimTime),
        availableCoupons |-> q.availableCoupons, nextSequenceNumber |-> nextSequenceNumber]
  ELSE [canClaim |-> TRUE, remainingTime |-> 0, totalClaims |-> 0, trackerType |-> "none",
        nextClaimTime |-> None,
        availableCoupons |-> q.availableCoupons, nextSequenceNumber |-> nextSequenceNumber]

\* nextCoupon = await Coupon.findOne(...); then the response
CheckRespondReplenishing(r) ==
  LET q == req[r]
      k == NextCouponIndex(coupons)
  IN /\ q.pc = "checkNext"
     /\ req' = [req EXCEPT ![r] =
          [q EXCEPT !.pc = "done", !.status = 200,
                    !.resp = Some(Eligibility(q, IF k = 0 THEN None
                                                 ELSE Some(coupons[k].sequenceNumber)))]]
     /\ coupons' = IF CountActive(coupons) < MINIMUM_COUPONS
                   THEN insertMany(coupons, NewCoupons(getNextSequenceNumber(coupons),
                                                       REPLENISH_COUNT))
                   ELSE coupons
     /\ UNCHANGED <<now, ticks, trackers, issued, started, claimLog, serial, faults,
                    schema, sample>>
     /\ Track(r)

CheckRespond(r) ==
  LET q == req[r]
      k == NextCouponIndex(coupons)
  IN /\ q.pc = "checkNext"
     /\ req' = [req EXCEPT ![r] =
          [q EXCEPT !.pc = "done", !.status = 200,
                    !.resp = Some(Eligibility(q, IF k = 0 THEN None
                                                 ELSE Some(coupons[k].sequenceNumber)))]]
     /\ UNCHANGED <<now, ticks, coupons, trackers, issued, started, claimLog, serial, faults,
                    schema, sample>>
     /\ Track(r)

\* the response has been sent and the slot takes the next request
Recycle(r) ==
  /\ req[r].pc = "done"
  /\ started < MaxRequests
  /\ req' = [q \in Slots |->
       IF q = r THEN IdleReq ELSE [req[q] EXCEPT !.overlapped = @ \ {r}]]
  /\ UNCHANGED <<now, ticks, coupons, trackers, issued, started, claimLog, serial, faults,
                 schema, sample>>
  /\ Track(r)

\* ------------------------------------------------------------ specification
Handler(r) ==
  \/ ClaimStart(r)
  \/ RejectByIp(r)
  \/ IpFreeWithSession(r)
  \/ IpFreeNoSession(r)
  \/ RejectBySession(r)
  \/ SessionFree(r)
  \/ CountCoupons(r)
  \/ GuardCount(r)
  \/ GuardMax(r)
  \/ GuardInsert(r)
  \/ ReserveHit(r)
  \/ ReserveMiss(r)
  \/ Exhausted(r)
  \/ TrackerFind(r, "ip")
  \/ TrackerFind(r, "session")
  \/ TrackerWrite(r, "ip")
  \/ TrackerWrite(r, "session")
  \/ ClaimFail(r)
  \/ GuardFail(r)
  \/ TrackerFail(r, "ip")
  \/ TrackerFail(r, "session")
  \/ TrackerInvalid(r, "ip")
  \/ TrackerInvalid(r, "session")
  \/ CheckFail(r)
  \/ CheckStart(r)
  \/ CheckIpLookup(r)
  \/ CheckSessionLookup(r)
  \/ CheckCount(r)
  \/ CheckRespond(r)
  \/ Recycle(r)

Next == \E r \in Slots : Handler(r)

Spec == Init /\ [][Next]_vars
SpecSerial == InitSerial /\ [][Next]_vars
SpecDual == InitDual /\ [][Next]_vars

\* Requests handled one at a time, where every pending storage call of the
\* request in flight comes back (with a result or an error) and the event loop
\* runs the continuation: the server does not stop while a step is enabled.
SpecSerialFair == InitSerial /\ [][Next]_vars /\ WF_vars(Next)

\* ------------------------------------------------------ helper functions
\* the largest whole number of seconds in the regular samples
MaxSeconds == 120

\* Math.floor((ms / unit) % modulus) on an integer ms: the division is exact
\* in floating point up to the rounding floor removes, and % is the truncated
\* remainder, which takes the sign of ms
JsFloorRem(ms, unit, modulus) ==
  IF ms >= 0
  THEN (ms \div unit) % modulus
  ELSE 0 - (((((0 - ms) % (unit * modulus)) + unit) - 1) \div unit)

\* Math.floor(ms / unit)
JsFloorDiv(ms, unit) == ms \div unit

\* if (n > 0) parts.push(`${n}${unit}`)
Part(n, unit) == IF n > 0 THEN <<ToString(n) \o unit>> ELSE <<>>

\* parts.join(' ')
RECURSIVE Join(_)
Join(parts) ==
  IF parts = <<>> THEN ""
  ELSE IF Len(parts) = 1 THEN parts[1]
  ELSE parts[1] \o " " \o Join(Tail(parts))

\* the parts array both helpers build
TimeParts(ms) ==
  LET seconds == JsFloorRem(ms, 1000, 60)
      minutes == JsFloorRem(ms, 1000 * 60, 60)
      hours == JsFloorDiv(ms, 1000 * 60 * 60)
  IN Part(hours, "h") \o Part(minutes, "m") \o Part(seconds, "s")

\* the server's helper (couponController.js)
formatTimeRemaining(milliseconds) == Join(TimeParts(milliseconds))

\* the client's helper without its first line
formatTimeUnguarded(ms) == Join(TimeParts(ms))

\* the client's helper (App.jsx)
formatTime(ms) ==
  IF ms <= 0 THEN "You can claim now" ELSE Join(TimeParts(ms))

\* process.env.NODE_ENV: unset, or one of the two values the code tests for
Environments == {Null, "development", "production"}

\* error.message of what a storage call throws
StorageErrors ==
  {"E11000 duplicate key error collection: coupons index: sequenceNumber_1",
   "connect ECONNREFUSED 127.0.0.1:27017",
   "ClaimTracker validation failed: ipAddress is required"}

CatchMessage ==
  [claimCoupon |-> "Error claiming coupon", checkEligibility |-> "Error checking eligibility"]

\* the catch block of a handler: status 500 and a JSON body, in which a key
\* whose value is undefined is left out (the timestamp in the body of
\* checkEligibility is not modelled)
CatchBlock(handler, nodeEnv, error) ==
  [status |-> 500,
   body |-> [message |-> CatchMessage[handler],
             error |-> IF nodeEnv = "development" THEN Some(error) ELSE None]]

\* millisecond counts the helpers are applied to: every whole second up to
\* MaxSeconds, and counts around zero and around the unit boundaries
SampleMs ==
  {1000 * k : k \in 0..MaxSeconds}
    \cup {0 - CLAIM_COOLDOWN, 0 - 60000, 0 - 1500, 0 - 1000, 0 - 1, 1, 999, 1001,
          CLAIM_COOLDOWN - 1, 59999, 60001, 3599999, 3600000, 3661000, 86400000}

ApplyFormatTimeRemaining ==
  /\ \E ms \in SampleMs :
       sample' = [fn |-> "formatTimeRemaining", arg |-> Some(ms),
                  out |-> Some(formatTimeRemaining(ms))]
  /\ UNCHANGED <<now, ticks, coupons, trackers, issued, req, started, claimLog, wrote,
                 serial, faults, schema>>

ApplyFormatTime ==
  /\ \E ms \in SampleMs :
       sample' = [fn |-> "formatTime", arg |-> Some(ms), out |-> Some(formatTime(ms))]
  /\ UNCHANGED <<now, ticks, coupons, trackers, issued, req, started, claimLog, wrote,
                 serial, faults, schema>>

ApplyCatch ==
  /\ \E handler \in DOMAIN CatchMessage, nodeEnv \in Environments, error \in StorageErrors :
       sample' = [fn |-> "catch", arg |-> Some(<<handler, nodeEnv, error>>),
                  out |-> Some(CatchBlock(handler, nodeEnv, error))]
  /\ UNCHANGED <<now, ticks, coupons, trackers, issued, req, started, claimLog, wrote,
                 serial, faults, schema>>

\* ------------------------------------------------ the client (App.jsx)
\* validateStatus of the axios instance: the statuses whose response resolves
\* the request's promise; every other status rejects it
validateStatus(status) == status >= 200 /\ status < 500

\* an HTTP response to POST /coupons/claim as the client reads it: the status
\* and, of the JSON body, message and remainingTime.total
ClaimReply(status, message, total) ==
  [status |-> status, data |-> Some([message |-> message, remainingTime |-> total])]

\* no response at all: the connection failed or the 30 s timeout ran out
NoReply == [status |-> 0, data |-> None]

\* the remaining times a 429 can carry
RemainingSamples == {ms \in SampleMs : ms > 0 /\ ms <= CLAIM_COOLDOWN}

\* what claimCoupon of the server answers, and no answer
ClaimReplies ==
  {ClaimReply(200, "Coupon claimed successfully!", None),
   ClaimReply(404, "No coupons available. Please try again later.", None),
   ClaimReply(500, CatchMessage["claimCoupon"], None),
   NoReply}
    \cup {ClaimReply(429, "Please wait " \o formatTimeRemaining(ms)
                            \o " before claiming another coupon " \o where, Some(ms)) :
            ms \in RemainingSamples, where \in {"in this browser.", "from this IP."}}

\* The client's claimCoupon, from the state it sets first (error, success
\* null, dialog closed) to the state it leaves: the try branch when the
\* promise resolved with a body, the catch branch when it was rejected or the
\* body was empty.  checkEligibility tells whether the handler went on to
\* await checkEligibility(); countdown is the argument of startCountdown.
ClientClaimCoupon(reply) ==
  LET resolved == reply.status # 0 /\ validateStatus(reply.status)
      response == IF reply.status # 0 /\ ~resolved THEN reply.data ELSE None
      errMessage == IF response # None THEN response[1].message
                    ELSE IF resolved THEN "Invalid response format"
                    ELSE "Network Error"
      total == IF response # None THEN response[1].remainingTime ELSE None
  IN IF resolved /\ reply.data # None
     THEN [error |-> None, success |-> reply.data, showCopyModal |-> TRUE,
           countdown |-> None, checkEligibility |-> TRUE, loading |-> FALSE]
     ELSE [error |-> Some(errMessage), success |-> None, showCopyModal |-> FALSE,
           countdown |-> IF total # None /\ total[1] # 0 THEN total ELSE None,
           checkEligibility |-> FALSE, loading |-> FALSE]

ApplyClientClaim ==
  /\ \E reply \in ClaimReplies :
       sample' = [fn |-> "clientClaimCoupon", arg |-> Some(reply),
                  out |-> Some(ClientClaimCoupon(reply))]
  /\ UNCHANGED <<now, ticks, coupons, trackers, issued, req, started, claimLog, wrote,
                 serial, faults, schema>>

\* the helpers on their own: the server is idle on a fresh database
InitPure ==
  /\ now = 0 /\ ticks = 0 /\ schema = "legacy" /\ serial = TRUE
  /\ coupons = <<>> /\ trackers = <<>> /\ issued = {}
  /\ req = [r \in Slots |-> IdleReq]
  /\ started = 0 /\ claimLog = <<>> /\ wrote = [r \in Slots |-> {}] /\ faults = 0
  /\ sample = NoSample

NextPure == ApplyFormatTimeRemaining \/ ApplyFormatTime \/ ApplyCatch \/ ApplyClientClaim

SpecPure == InitPure /\ [][NextPure]_vars

\* ------------------------------------------------------------------ claims
Log == DOMAIN claimLog
ClaimDone(r, status) == req[r].kind = "claim" /\ req[r].pc = "done" /\ req[r].status = status
CheckDone(r) == req[r].kind = "check" /\ req[r].pc = "done" /\ req[r].status = 200
Overlapping(r1, r2) == r1 \in req[r2].overlapped \/ r2 \in req[r1].overlapped
\* the requests holding a reserved coupon
Holding == {r \in Slots : req[r].coupon # None}

SameIdentity(q1, q2) ==
  q1.ip = q2.ip \/ (q1.sessionId # None /\ q1.sessionId = q2.sessionId)

C5_ClaimedPrefix ==
  LET claimed == {coupons[i].sequenceNumber : i \in {j \in DOMAIN coupons : ~coupons[j].isActive}}
      unclaimed == {coupons[i].sequenceNumber : i \in {j \in DOMAIN coupons : coupons[j].isActive}}
  IN \A u \in unclaimed : \A c \in claimed : c < u

\* two overlapping guards have both reached their insert, after which coupons
\* of the new batch are claimed while others of it are not
C5_Witness ==
  /\ Len(coupons) = REPLENISH_COUNT
  /\ \A r \in Slots : req[r].kind = "claim" /\ req[r].guardCalls > 0 /\ req[r].coupon # None
  /\ \E i \in DOMAIN coupons : coupons[i].isActive

Gate(q) == IF q.ipTracker # None THEN q.ipTracker[1] ELSE q.sessionTracker[1]
GateKind(q) == IF q.ipTracker # None THEN "IP Address" ELSE "Browser Session"

SameCaller(r1, r2) ==
  /\ CheckDone(r1) /\ CheckDone(r2)
  /\ req[r1].ip = req[r2].ip /\ req[r1].sessionId = req[r2].sessionId
  /\ req[r1].ver = req[r2].ver /\ req[r1].ver = TrackerVersion(trackers)

Mine(t, q) ==
  \/ t.type = "ip" /\ t.identifier = q.ip
  \/ t.type = "session" /\ q.sessionId # None /\ t.identifier = q.sessionId

RemainingOf(q, type) ==
  LET t == FindActiveTracker(trackers, IF type = "ip" THEN q.ip ELSE q.sessionId, type,
                             q.currentTime)
  IN IF t = None \/ (type = "session" /\ q.sessionId = None) THEN 0
     ELSE t[1].nextClaimTime - q.currentTime

\* a request that was answered from the trackers as they still are
Answered(r) ==
  /\ CheckDone(r) \/ ClaimDone(r, 429)
  /\ req[r].ver = TrackerVersion(trackers)

WouldReport(q) ==
  Eligibility([q EXCEPT
      !.ipTracker = FindActiveTracker(trackers, q.ip, "ip", q.currentTime),
      !.sessionTracker = IF q.sessionId = None THEN None
                         ELSE FindActiveTracker(trackers, q.sessionId, "session",
                                                q.currentTime)], None)

\* claimCoupon has passed its cooldown check
Passed(q) ==
  q.kind = "claim" /\ (q.pc \in {"count", "guardCount", "guardMax", "guardInsert", "reserve",
                                 "retry", "trackers"} \/ q.coupon # None \/ q.status = 404)

C15_MintedTokensDistinct ==
  \A r1, r2 \in Slots :
    (/\ r1 # r2 /\ req[r1].ip # req[r2].ip
     /\ req[r1].minted # None /\ req[r2].minted # None)
      => req[r1].minted # req[r2].minted

\* C16: a claim that passes the cooldown check while fewer than
\* MINIMUM_COUPONS coupons are unclaimed runs the replenishment guard.
C16_GuardInvokedBelowFloor ==
  \A r \in Slots :
    (req[r].kind = "claim" /\ req[r].coupon # None
     /\ req[r].availableCoupons < MINIMUM_COUPONS) => req[r].guardCalls > 0

\* C17: checkAndReplenishCoupons, none of its storage calls failing, inserts
\* nothing and returns false on a count at or above MINIMUM_COUPONS, and
\* inserts exactly REPLENISH_COUNT coupons and returns true on a count below.
C17_GuardContract ==
  \A r \in Slots :
    (req[r].guard # None /\ ~req[r].guard[1].threw) =>
      LET g == req[r].guard[1]
      IN /\ g.below => g.ret /\ g.inserted = REPLENISH_COUNT
         /\ ~g.below => ~g.ret /\ g.inserted = 0

\* claimCoupon counted no active coupon
SawEmptyPool(q) ==
  /\ q.kind = "claim" /\ q.availableCoupons = 0
  /\ \/ q.pc \in {"guardCount", "guardMax", "guardInsert", "reserve", "retry", "trackers"}
     \/ q.coupon # None
     \/ q.status = 404

LastCouponRace(r1, r2) ==
  /\ r1 # r2 /\ started = 2 /\ Overlapping(r1, r2)
  /\ Len(coupons) >= REPLENISH_COUNT /\ coupons[1].claimedBy = "earlier"
  /\ req[r1].ip # req[r2].ip
  /\ req[r1].sessionId = None \/ req[r1].sessionId # req[r2].sessionId
  /\ \A r \in {r1, r2} : ClaimDone(r, 200) \/ ClaimDone(r, 404)

GotLast(r) == ClaimDone(r, 200) /\ req[r].coupon[1].sequenceNumber = REPLENISH_COUNT

C20_SuccessDespiteTrackerFailure ==
  \A r \in Slots :
    (/\ req[r].kind = "claim" /\ req[r].pc = "done" /\ req[r].coupon # None
     /\ req[r].ipUp = "failed" \/ req[r].sessionUp = "failed")
      => /\ req[r].status = 200
         /\ \A i \in DOMAIN coupons :
              coupons[i].sequenceNumber = req[r].coupon[1].sequenceNumber
                => ~coupons[i].isActive

\* every claim recorded for the caller lies a whole cooldown back, and there
\* is one
Recovered(q) ==
  /\ \E i \in DOMAIN trackers : Mine(trackers[i], q)
  /\ \A i \in DOMAIN trackers :
       Mine(trackers[i], q) => trackers[i].lastClaimAt + CLAIM_COOLDOWN <= q.currentTime

C25_GuardOnceAfterMiss ==
  \A r \in Slots :
    /\ req[r].guardCalls <= 1
    /\ req[r].guardCalls = 1 => req[r].guardRet = "retry"
    /\ ClaimDone(r, 404) => req[r].guardCalls = 1

\* C26: when the batch insert of a replenishment fails (here: insertMany is
\* stopped by the unique index), checkAndReplenishCoupons returns false and
\* the pool holds no coupon of the failed batch.
C26_FailedBatchReported ==
  \A r \in Slots :
    (/\ req[r].guard # None
     /\ req[r].guard[1].below /\ ~req[r].guard[1].threw
     /\ req[r].guard[1].inserted < REPLENISH_COUNT)
    => ~req[r].guard[1].ret /\ req[r].guard[1].inserted = 0

\* C27: a batch of n coupons generated by generateCoupons gets the contiguous
\* sequence numbers max+1 .. max+n, max being the largest sequenceNumber over
\* all coupons of the pool, claimed or not, and 1 .. n when the pool is empty.
\* Coupons are never deleted and are kept in insertion order, so the pool the
\* maximum was read from is a prefix of the pool: every stored batch is as
\* stated exactly when the numbers of the pool run 1, 2, ... in whole batches,
\* and a batch about to be stored starts right after a whole number of
\* batches, above every coupon the request counted.
C27_ContiguousBatches ==
  /\ \A i \in DOMAIN coupons : coupons[i].sequenceNumber = i
  /\ Len(coupons) % REPLENISH_COUNT = 0
  /\ \A r \in Slots :
       req[r].pc = "guardInsert" =>
         LET batch == NewCoupons(req[r].nextSeq, REPLENISH_COUNT)
         IN /\ \A k \in DOMAIN batch : batch[k].sequenceNumber = req[r].nextSeq + (k - 1)
            /\ Len(batch) = REPLENISH_COUNT
            /\ (req[r].nextSeq - 1) % REPLENISH_COUNT = 0
            /\ req[r].nextSeq - 1 <= Len(coupons)
            /\ req[r].nextSeq > req[r].poolSize

\* a second batch was stored after a pool whose coupons were all claimed
C27_Witness ==
  /\ Len(coupons) = 2 * REPLENISH_COUNT
  /\ \A i \in 1..REPLENISH_COUNT : ~coupons[i].isActive
  /\ coupons[Len(coupons)].sequenceNumber = 2 * REPLENISH_COUNT
  /\ \E r \in Slots : req[r].guard # None /\ req[r].guard[1].inserted = REPLENISH_COUNT

\* C28: in every reachable state, also when two replenishments run
\* concurrently and read the same maximum, no two coupons of the pool have the
\* same sequenceNumber.
C28_SequenceNumbersUnique ==
  Cardinality({coupons[i].sequenceNumber : i \in DOMAIN coupons}) = Len(coupons)

\* two replenishments read the same maximum: one stored its batch and the
\* insert of the other was stopped
C28_Witness ==
  \E r1, r2 \in Slots :
    /\ r1 # r2
    /\ req[r1].guard # None /\ req[r2].guard # None
    /\ req[r1].guard[1].inserted = REPLENISH_COUNT
    /\ req[r2].guard[1].below /\ ~req[r2].guard[1].threw /\ req[r2].guard[1].inserted = 0
    /\ coupons # <<>>

TrackerOfIp(trs, q) == FindTracker(trs, q.ip, "ip")
TrackerOfSession(trs, q) == FindTracker(trs, q.sessionId, "session")
CountOf(t) == IF t = None THEN 0 ELSE t[1].claimCount

\* a successful claim that presented a session token, with no tracker write
\* after its two
JustClaimed(r) ==
  /\ ClaimDone(r, 200)
  /\ req[r].sessionId # None
  /\ TrackerVersion(trackers) = req[r].ver + 2

\* the step is a tracker write (TrackerWrite) of a claim that presented a
\* session token
WritesTracker(r, kind) ==
  /\ req[r].pc = "trackers" /\ req[r].sessionId # None
  /\ UpPos(req[r], kind) \in {"update", "create"}
  /\ UpPos(req'[r], kind) = "done"

Stored(cs, c) == cs[CHOOSE i \in DOMAIN cs : cs[i].sequenceNumber = c.sequenceNumber]

\* C32: a coupon goes from unclaimed to claimed at most once and never back:
\* no coupon leaves the pool, a claimed coupon never changes again (claimant
\* and claimedAt included), a coupon changes only by being claimed, and a
\* reservation hands out only a coupon that was unclaimed until that step.
C32_ClaimedOnceForGood ==
  [][/\ \A i \in DOMAIN coupons :
          /\ i \in DOMAIN coupons'
          /\ ~coupons[i].isActive => coupons'[i] = coupons[i]
          /\ coupons'[i] # coupons[i] =>
               /\ coupons[i].isActive /\ coupons[i].claimedBy = Null
               /\ ~coupons'[i].isActive /\ coupons'[i].claimedBy # Null
               /\ coupons'[i].claimedAt # None
     /\ \A r \in Slots :
          (req[r].coupon = None /\ req'[r].coupon # None) =>
            /\ Stored(coupons, req'[r].coupon[1]).isActive
            /\ Stored(coupons', req'[r].coupon[1]) = req'[r].coupon[1]
            /\ ~req'[r].coupon[1].isActive]_vars

\* two claims at different instants hold different coupons, and the pool still
\* has the earlier one as its claim left it
C32_Witness ==
  \E r1, r2 \in Holding :
    /\ req[r1].currentTime < req[r2].currentTime
    /\ req[r1].coupon[1].sequenceNumber < req[r2].coupon[1].sequenceNumber
    /\ Stored(coupons, req[r1].coupon[1]) = req[r1].coupon[1]
    /\ Stored(coupons, req[r2].coupon[1]) = req[r2].coupon[1]

\* C33: a successful reservation by a caller that presented a session token
\* stamps the coupon with that session token as well as with the claimant
\* address and the claim time.
C33_SessionStamped ==
  \A r \in Holding :
    req[r].sessionId # None =>
      /\ req[r].coupon[1].claimedBy = req[r].ip
      /\ req[r].coupon[1].claimedAt = Some(req[r].currentTime)
      /\ req[r].coupon[1].sessionId = req[r].sessionId

\* the statuses claimCoupon answers with
ClaimStatuses == {200, 429, 404, 500}
ClaimInFlight(r) == req[r].kind = "claim" /\ req[r].pc \notin {"idle", "done"}

\* C34: every claimCoupon request terminates and sends exactly one response,
\* which is a success, a cooldown rejection (429), an exhaustion (404) or a
\* generic server error (500): a response once sent is not followed by
\* another, a finished request has sent one, and a request in flight finishes.
C34_OneResponse ==
  /\ [](\A r \in Slots :
          req[r].kind = "claim" =>
            /\ req[r].status # 0 <=> req[r].resp # None
            /\ req[r].status # 0 => req[r].status \in ClaimStatuses
            /\ req[r].pc = "done" => req[r].status # 0)
  /\ [][\A r \in Slots :
          (req[r].kind = "claim" /\ req[r].status # 0 /\ req'[r].pc # "idle")
          => req'[r].status = req[r].status /\ req'[r].resp = req[r].resp]_vars
  /\ (\E r \in Slots : ClaimInFlight(r)) ~> (\A r \in Slots : ~ClaimInFlight(r))

\* both updateTracker calls of Promise.all failed, after the coupon was
\* reserved, and the claim was answered with the one 500
C34_Witness ==
  \E r \in Slots :
    /\ ClaimDone(r, 500)
    /\ req[r].coupon # None
    /\ req[r].ipUp = "failed" /\ req[r].sessionUp = "failed"

\* an updateTracker call of the request failed though no storage call threw
Refused(r, kind) ==
  req[r].kind = "claim" /\ UpPos(req[r], kind) = "failed" /\ faults = 0

\* C35: a tracker record that carries neither an address identifier nor a
\* session identifier is rejected at write time with a validation error and is
\* not persisted: under the schema with the pre-save hook no stored tracker
\* lacks both, and a record lacking both made its updateTracker call throw.
C35_MalformedTrackerRejected ==
  /\ schema = "legacy" => \A i \in DOMAIN trackers : PreSave(trackers[i])
  /\ \A r \in Slots : \A kind \in {"ip", "session"} :
       /\ (/\ req[r].kind = "claim" /\ UpPos(req[r], kind) = "done"
           /\ schema = "legacy")
          => PreSave(Cast(schema, TrackerDoc(req[r], kind)))
       /\ Refused(r, kind) =>
            /\ schema = "legacy"
            /\ ~PreSave(Cast(schema, TrackerDoc(req[r], kind)))
            /\ req[r].status = 500
            /\ "trackers" \notin wrote[r]

\* a record without ipAddress and sessionId was refused and nothing is stored
C35_Witness ==
  \E r \in Slots :
    /\ Refused(r, "ip")
    /\ ClaimDone(r, 500)
    /\ trackers = <<>>

\* C36: the tracker records updateTracker writes for a successful claim pass
\* the write-time validation of the ClaimTracker model, so that a claim which
\* reserved a coupon, no storage call failing, ends in a success response and
\* a persisted tracker of the claimant.
C36_TrackerRecordsValid ==
  \A r \in Slots :
    (req[r].kind = "claim" /\ req[r].pc = "done" /\ req[r].coupon # None /\ faults = 0)
    => /\ req[r].status = 200
       /\ FindTracker(trackers, req[r].ip, "ip") # None

\* r2 is a claim of the caller of r1 at the instant of r1, begun after r1 had
\* been answered, with no tracker written since r1 began
ClaimsAgain(r1, r2) ==
  /\ r1 # r2 /\ ~Overlapping(r1, r2)
  /\ req[r1].pc = "done" /\ req[r2].kind = "claim" /\ req[r2].pc \notin {"idle", "done"}
  /\ req[r2].ip = req[r1].ip
  /\ req[r2].sessionId \in {req[r1].sessionId, req[r1].minted}
  /\ req[r2].currentTime = req[r1].currentTime
  /\ req[r2].ver = req[r1].ver

\* C37: a claimCoupon request that ends in the exhaustion error reserves no
\* coupon and writes no ClaimTracker, so the same identity is not put under
\* cooldown by it and may claim again immediately.
C37_ExhaustionLeavesNoCooldown ==
  /\ \A r \in Slots :
       ClaimDone(r, 404) =>
         /\ req[r].coupon = None
         /\ "trackers" \notin wrote[r]
         /\ req[r].ver = TrackerVersion(trackers) => WouldReport(req[r]).canClaim
  /\ \A r1, r2 \in Slots :
       (ClaimDone(r1, 404) /\ ClaimsAgain(r1, r2)
        /\ req[r2].pc \notin {"ipLookup", "sessionLookup"})
       => Passed(req[r2])

\* after an exhaustion error the same caller claimed again at once and was
\* let through to the coupons
C37_Witness ==
  \E r1, r2 \in Slots :
    /\ ClaimDone(r1, 404) /\ ClaimsAgain(r1, r2)
    /\ Passed(req[r2])

\* remainingTime.formatted of a cooldown body: formatTimeRemaining(remainingMs)
RemainingFormatted(body) == formatTimeRemaining(body.remainingTime)

\* a cooldown response: the 429 of a claim or an ineligible eligibility result
CooldownResponse(r) == ClaimDone(r, 429) \/ (CheckDone(r) /\ ~req[r].resp[1].canClaim)

Applied(fn) == sample.fn = fn
SampleArg == sample.arg[1]
SampleOut == sample.out[1]

\* C21: every storage failure inside claimCoupon or checkEligibility is
\* answered with a generic 500 body that carries no text of the underlying
\* storage error, whatever NODE_ENV is.
C21_NoStorageErrorText ==
  Applied("catch") =>
    /\ SampleOut.status = 500
    /\ SampleOut.body.message = CatchMessage[SampleArg[1]]
    /\ SampleOut.body.error = None

\* the non-zero ones of h, m, s, each with its unit, joined by single spaces
SpaceJoined(h, m, s) ==
  LET H == ToString(h) \o "h"
      M == ToString(m) \o "m"
      S == ToString(s) \o "s"
  IN CASE h > 0 /\ m > 0 /\ s > 0 -> H \o " " \o M \o " " \o S
       [] h > 0 /\ m > 0 /\ s = 0 -> H \o " " \o M
       [] h > 0 /\ m = 0 /\ s > 0 -> H \o " " \o S
       [] h > 0 /\ m = 0 /\ s = 0 -> H
       [] h = 0 /\ m > 0 /\ s > 0 -> M \o " " \o S
       [] h = 0 /\ m > 0 /\ s = 0 -> M
       [] h = 0 /\ m = 0 /\ s > 0 -> S
       [] OTHER -> ""

\* C22: formatTime maps every non-positive millisecond count to the fixed
\* claim-now sentinel and every positive count ms to the space-joined non-zero
\* components of h = ms div 3600000, m = (ms div 60000) mod 60,
\* s = (ms div 1000) mod 60; 90000 gives "1m 30s", 3661000 gives "1h 1m 1s".
C22_FormatTime ==
  Applied("formatTime") =>
    LET ms == SampleArg
    IN /\ ms <= 0 => SampleOut = "You can claim now"
       /\ ms > 0 => SampleOut = SpaceJoined(ms \div 3600000, (ms \div 60000) % 60,
                                            (ms \div 1000) % 60)
       /\ ms = 90000 => SampleOut = "1m 30s"
       /\ ms = 3661000 => SampleOut = "1h 1m 1s"

\* formatTime has been applied to one hour, one minute and one second
C22_Witness ==
  /\ Applied("formatTime")
  /\ SampleArg = 3661000
  /\ SampleOut = "1h 1m 1s"

\* C23: the server's formatTimeRemaining and the client's formatTime return the
\* same string for every millisecond input, 0 and negative values included.
C23_ServerClientAgree ==
  Applied("formatTimeRemaining") \/ Applied("formatTime") =>
    formatTimeRemaining(SampleArg) = formatTime(SampleArg)

\* C39: the client enters its claimed state (the response stored as the
\* claimed coupon, the coupon dialog open) only when the server answered the
\* claim with a success response; a 429 or a 404 puts it in the error state,
\* and a 429 starts the countdown from the returned remaining time.
C39_ClaimedOnlyOnSuccess ==
  Applied("clientClaimCoupon") =>
    LET reply == SampleArg
        client == SampleOut
    IN /\ (client.success # None \/ client.showCopyModal) => reply.status = 200
       /\ reply.status \in {429, 404} => (client.error # None /\ client.success = None)
       /\ reply.status = 429 => client.countdown = reply.data[1].remainingTime

====
